---- MODULE Spec2Model ----
(***************************************************************************)
(* The SLS OpenTelemetry provider (package provider, second definition in  *)
(* src/unnamed/part_000, lines 403-825): NewConfig merges the environment  *)
(* and the functional options into a Config and validates it, Start builds *)
(* the exporters and providers and registers stop callbacks, Shutdown runs *)
(* the callbacks.                                                          *)
(*                                                                         *)
(* Go strings are sequences of one-character strings, so that Contains,    *)
(* ContainsAny, Split, TrimSpace, ParseBool, Duration.String and           *)
(* ParseDuration are computed character by character.                      *)
(***************************************************************************)
EXTENDS Integers, Sequences, FiniteSets, TLC

\* ------------------------------------------------------------------ bounds
\* Longest list of options handed to NewConfig.
MaxOpts == 2

\* ----------------------------------------------------------------- strings
EmptyStr == <<>>

Digits == {"0", "1", "2", "3", "4", "5", "6", "7", "8", "9"}

DigitVal(ch) ==
    CASE ch = "0" -> 0 [] ch = "1" -> 1 [] ch = "2" -> 2 [] ch = "3" -> 3
      [] ch = "4" -> 4 [] ch = "5" -> 5 [] ch = "6" -> 6 [] ch = "7" -> 7
      [] ch = "8" -> 8 [] ch = "9" -> 9

DigitChar(n) ==
    CASE n = 0 -> "0" [] n = 1 -> "1" [] n = 2 -> "2" [] n = 3 -> "3"
      [] n = 4 -> "4" [] n = 5 -> "5" [] n = 6 -> "6" [] n = 7 -> "7"
      [] n = 8 -> "8" [] n = 9 -> "9"

\* s[from..] (1-based), the Go slice s[from-1:].
Drop(s, n) == SubSeq(s, n + 1, Len(s))

\* strings.Contains(s, substr)
Contains(s, substr) ==
    \E i \in 0..(Len(s) - Len(substr)) : SubSeq(s, i + 1, i + Len(substr)) = substr

\* strings.ContainsAny(s, chars), chars given as a set of characters
ContainsAny(s, chars) == \E i \in 1..Len(s) : s[i] \in chars

\* strings.Split(s, sep) for a one-character separator: the pieces between
\* the separators, empty pieces kept.
RECURSIVE SplitAcc(_, _, _)
SplitAcc(s, sep, cur) ==
    IF s = <<>> THEN <<cur>>
    ELSE IF Head(s) = sep THEN <<cur>> \o SplitAcc(Tail(s), sep, <<>>)
    ELSE SplitAcc(Tail(s), sep, Append(cur, Head(s)))

Split(s, sep) == SplitAcc(s, sep, <<>>)

\* strings.TrimSpace(s): leading and trailing white space removed.
WhiteSpace == {" ", "\t", "\n", "\r"}

RECURSIVE TrimLeft(_)
TrimLeft(s) == IF s # <<>> /\ Head(s) \in WhiteSpace THEN TrimLeft(Tail(s)) ELSE s

RECURSIVE TrimRight(_)
TrimRight(s) ==
    IF s # <<>> /\ s[Len(s)] \in WhiteSpace THEN TrimRight(SubSeq(s, 1, Len(s) - 1)) ELSE s

TrimSpace(s) == TrimRight(TrimLeft(s))

\* strconv.ParseBool(str): the twelve spellings it accepts, an error otherwise.
TrueSpellings ==
    {<<"1">>, <<"t">>, <<"T">>, <<"T", "R", "U", "E">>, <<"t", "r", "u", "e">>,
     <<"T", "r", "u", "e">>}

FalseSpellings ==
    {<<"0">>, <<"f">>, <<"F">>, <<"F", "A", "L", "S", "E">>, <<"f", "a", "l", "s", "e">>,
     <<"F", "a", "l", "s", "e">>}

ParseBool(str) ==
    IF str \in TrueSpellings THEN [ok |-> TRUE, b |-> TRUE]
    ELSE IF str \in FalseSpellings THEN [ok |-> TRUE, b |-> FALSE]
    ELSE [ok |-> FALSE, b |-> FALSE]

\* ---------------------------------------------------------- time.Duration
\* A Go Duration is a signed 64-bit count of nanoseconds.  It is held here as
\* sign, whole seconds and nanoseconds below one second (zero is never
\* negative), so that the nanosecond count does not leave TLC's integers.
NanosPerSecond == 1000000000

Duration(neg, sec, nsec) ==
    [neg |-> neg /\ (sec # 0 \/ nsec # 0), sec |-> sec, nsec |-> nsec]

Seconds(n) == Duration(FALSE, n, 0)

RECURSIVE Pow10(_)
Pow10(k) == IF k = 0 THEN 1 ELSE 10 * Pow10(k - 1)

\* fmtInt: the decimal digits of v, "0" for zero.
RECURSIVE fmtIntDigits(_)
fmtIntDigits(v) == IF v = 0 THEN <<>> ELSE Append(fmtIntDigits(v \div 10), DigitChar(v % 10))

fmtInt(v) == IF v = 0 THEN <<"0">> ELSE fmtIntDigits(v)

\* fmtFrac: the low prec digits of v as a fraction, trailing zeros and a bare
\* decimal point omitted.  print is the loop's flag.
RECURSIVE fmtFracLoop(_, _, _)
fmtFracLoop(v, prec, print) ==
    IF prec = 0 THEN (IF print THEN <<".">> ELSE <<>>)
    ELSE LET digit == v % 10
             p == print \/ digit # 0
         IN  fmtFracLoop(v \div 10, prec - 1, p) \o (IF p THEN <<DigitChar(digit)>> ELSE <<>>)

fmtFrac(v, prec) == fmtFracLoop(v, prec, FALSE)

\* The micro sign U+00B5 that Duration.String writes, and the Greek mu U+03BC
\* that ParseDuration accepts as well: one character each.
MicroSign == "U+00B5"
GreekMu == "U+03BC"

\* Duration.String (Duration.format): below one second a single unit ns, us
\* or ms with a fraction, otherwise hours, minutes and seconds.
DurationString(d) ==
    LET body ==
          IF d.sec = 0 THEN
            IF d.nsec = 0 THEN <<"0", "s">>
            ELSE IF d.nsec < 1000 THEN fmtInt(d.nsec) \o <<"n", "s">>
            ELSE IF d.nsec < 1000000
              THEN fmtInt(d.nsec \div 1000) \o fmtFrac(d.nsec, 3) \o <<MicroSign, "s">>
            ELSE fmtInt(d.nsec \div 1000000) \o fmtFrac(d.nsec, 6) \o <<"m", "s">>
          ELSE
            LET secs == fmtInt(d.sec % 60) \o fmtFrac(d.nsec, 9) \o <<"s">>
                mins == d.sec \div 60
                hours == mins \div 60
            IN  IF mins = 0 THEN secs
                ELSE IF hours = 0 THEN fmtInt(mins % 60) \o <<"m">> \o secs
                ELSE fmtInt(hours) \o <<"h">> \o fmtInt(mins % 60) \o <<"m">> \o secs
    IN  IF d.neg THEN <<"-">> \o body ELSE body

\* A rendering of a Duration as its whole seconds without a unit, which
\* ParseDuration rejects: the option would lose every period.
Sprint_Seconds(p) == fmtInt(p.sec)

\* fmt.Sprint(p) of a Duration is p.String().
Sprint(p) == DurationString(p)

\* Number of leading characters of s that are digits.
RECURSIVE LeadingDigits(_)
LeadingDigits(s) ==
    IF s # <<>> /\ Head(s) \in Digits THEN 1 + LeadingDigits(Tail(s)) ELSE 0

RECURSIVE DecimalValue(_)
DecimalValue(digs) ==
    IF digs = <<>> THEN 0
    ELSE 10 * DecimalValue(SubSeq(digs, 1, Len(digs) - 1)) + DigitVal(digs[Len(digs)])

\* leadingInt: the leading decimal number of s and the rest.
leadingInt(s) ==
    LET n == LeadingDigits(s)
    IN  [x |-> DecimalValue(SubSeq(s, 1, n)), rem |-> Drop(s, n), n |-> n]

\* leadingFraction: the leading digits of s as a fraction x / scale.
leadingFraction(s) ==
    LET n == LeadingDigits(s)
    IN  [x |-> DecimalValue(SubSeq(s, 1, n)), scale |-> Pow10(n), rem |-> Drop(s, n), n |-> n]

\* Length of the unit at the head of s: up to the next '.' or digit.
RECURSIVE UnitLength(_)
UnitLength(s) ==
    IF s = <<>> \/ Head(s) = "." \/ Head(s) \in Digits THEN 0 ELSE 1 + UnitLength(Tail(s))

\* unitMap: seconds and nanoseconds of one unit; sec = nsec = 0 for no unit.
unitMap(u) ==
    CASE u = <<"n", "s">> -> [sec |-> 0, nsec |-> 1]
      [] u = <<"u", "s">> -> [sec |-> 0, nsec |-> 1000]
      [] u = <<MicroSign, "s">> -> [sec |-> 0, nsec |-> 1000]
      [] u = <<GreekMu, "s">> -> [sec |-> 0, nsec |-> 1000]
      [] u = <<"m", "s">> -> [sec |-> 0, nsec |-> 1000000]
      [] u = <<"s">> -> [sec |-> 1, nsec |-> 0]
      [] u = <<"m">> -> [sec |-> 60, nsec |-> 0]
      [] u = <<"h">> -> [sec |-> 3600, nsec |-> 0]
      [] OTHER -> [sec |-> 0, nsec |-> 0]

\* v * unit
ScaleInt(v, unit) ==
    IF unit.sec > 0 THEN [sec |-> v * unit.sec, nsec |-> 0]
    ELSE LET per == NanosPerSecond \div unit.nsec
         IN  [sec |-> v \div per, nsec |-> (v % per) * unit.nsec]

\* uint64(float64(f) * (float64(unit) / scale)): the fraction f / scale of
\* one unit, in whole nanoseconds.
ScaleFrac(f, scale, unit) ==
    IF unit.sec > 0 THEN
      LET whole == f * unit.sec
          rest == whole % scale
      IN  [sec |-> whole \div scale, nsec |-> rest * (NanosPerSecond \div scale)]
    ELSE IF scale <= unit.nsec THEN [sec |-> 0, nsec |-> f * (unit.nsec \div scale)]
    ELSE [sec |-> 0, nsec |-> f \div (scale \div unit.nsec)]

AddNanos(a, b) ==
    LET n == a.nsec + b.nsec
    IN  [sec |-> a.sec + b.sec + n \div NanosPerSecond, nsec |-> n % NanosPerSecond]

\* The loop of ParseDuration over ([0-9]*(\.[0-9]*)?[a-z]+)+, d the sum so far.
RECURSIVE ParseDurationLoop(_, _)
ParseDurationLoop(s, d) ==
    IF s = <<>> THEN [ok |-> TRUE, sec |-> d.sec, nsec |-> d.nsec]
    ELSE IF ~(Head(s) = "." \/ Head(s) \in Digits) THEN [ok |-> FALSE, sec |-> 0, nsec |-> 0]
    ELSE
      LET li == leadingInt(s)
          pre == li.n # 0
          dot == li.rem # <<>> /\ Head(li.rem) = "."
          lf == IF dot THEN leadingFraction(Tail(li.rem))
                ELSE [x |-> 0, scale |-> 1, rem |-> li.rem, n |-> 0]
          post == dot /\ lf.n # 0
          i == UnitLength(lf.rem)
          unit == unitMap(SubSeq(lf.rem, 1, i))
      IN  IF ~pre /\ ~post THEN [ok |-> FALSE, sec |-> 0, nsec |-> 0]
          ELSE IF i = 0 THEN [ok |-> FALSE, sec |-> 0, nsec |-> 0]
          ELSE IF unit.sec = 0 /\ unit.nsec = 0 THEN [ok |-> FALSE, sec |-> 0, nsec |-> 0]
          ELSE LET v == IF lf.x > 0
                          THEN AddNanos(ScaleInt(li.x, unit), ScaleFrac(lf.x, lf.scale, unit))
                          ELSE ScaleInt(li.x, unit)
               IN  ParseDurationLoop(Drop(lf.rem, i), AddNanos(d, v))

\* time.ParseDuration(s): [ok, d]; d is the zero Duration when ok is FALSE.
ParseDuration(s) ==
    LET signed == s # <<>> /\ Head(s) \in {"-", "+"}
        neg == signed /\ Head(s) = "-"
        body == IF signed THEN Tail(s) ELSE s
    IN  IF body = <<"0">> THEN [ok |-> TRUE, d |-> Seconds(0)]
        ELSE IF body = <<>> THEN [ok |-> FALSE, d |-> Seconds(0)]
        ELSE LET r == ParseDurationLoop(body, [sec |-> 0, nsec |-> 0])
             IN  [ok |-> r.ok, d |-> IF r.ok THEN Duration(neg, r.sec, r.nsec) ELSE Seconds(0)]

\* ------------------------------------------------------------------ Config
Stdout == <<"s", "t", "d", "o", "u", "t">>
SLSDomain == <<"l", "o", "g", ".", "a", "l", "i", "y", "u", "n", "c", "s", ".", "c", "o", "m">>
DefaultServiceVersion == <<"v", "0", ".", "1", ".", "0">>
DefaultMetricReportingPeriod == <<"3", "0", "s">>

\* A nil interface value (otel.ErrorHandler, sdktrace.IDGenerator, exporters).
Nil == "nil"

\* A nil *resource.Resource and resource.Empty(); a Resource is its schema
\* URL and its attribute set, a map from key to value.
EmptyMap == [k \in {} |-> k]
NilResource == [nil |-> TRUE, schemaURL |-> "", attrs |-> EmptyMap]
EmptyResource == [nil |-> FALSE, schemaURL |-> "", attrs |-> EmptyMap]

\* A nil map[string]string and a map with entries m.
NilMap == [nil |-> TRUE, m |-> EmptyMap]
MakeMap(m) == [nil |-> FALSE, m |-> m]

\* var c Config: the zero value of the struct.
ZeroConfig ==
    [TraceExporterEndpoint |-> EmptyStr,
     TraceExporterEndpointInsecure |-> FALSE,
     MetricExporterEndpoint |-> EmptyStr,
     MetricExporterEndpointInsecure |-> FALSE,
     MetricReportingPeriod |-> EmptyStr,
     ServiceName |-> EmptyStr,
     ServiceNamespace |-> EmptyStr,
     ServiceVersion |-> EmptyStr,
     Project |-> EmptyStr,
     InstanceID |-> EmptyStr,
     AccessKeyID |-> EmptyStr,
     AccessKeySecret |-> EmptyStr,
     AttributesEnvKeys |-> EmptyStr,
     IDGenerator |-> Nil,
     Resource |-> NilResource,
     resourceAttributes |-> NilMap,
     errorHandler |-> Nil,
     stop |-> <<>>]

\* The env struct tags of Config: field, environment variable, default
\* ("" where the tag names none) and whether the field is a bool.
EnvTags ==
    {[field |-> "TraceExporterEndpoint", key |-> <<"S", "L", "S", "_", "O", "T", "E", "L", "_", "T", "R", "A", "C", "E", "_", "E", "N", "D", "P", "O", "I", "N", "T">>,
      default |-> Stdout, bool |-> FALSE],
     [field |-> "TraceExporterEndpointInsecure", key |-> <<"S", "L", "S", "_", "O", "T", "E", "L", "_", "T", "R", "A", "C", "E", "_", "I", "N", "S", "E", "C", "U", "R", "E">>,
      default |-> <<"f", "a", "l", "s", "e">>, bool |-> TRUE],
     [field |-> "MetricExporterEndpoint", key |-> <<"S", "L", "S", "_", "O", "T", "E", "L", "_", "M", "E", "T", "R", "I", "C", "_", "E", "N", "D", "P", "O", "I", "N", "T">>,
      default |-> Stdout, bool |-> FALSE],
     [field |-> "MetricExporterEndpointInsecure", key |-> <<"S", "L", "S", "_", "O", "T", "E", "L", "_", "M", "E", "T", "R", "I", "C", "_", "I", "N", "S", "E", "C", "U", "R", "E">>,
      default |-> <<"f", "a", "l", "s", "e">>, bool |-> TRUE],
     [field |-> "MetricReportingPeriod", key |-> <<"S", "L", "S", "_", "O", "T", "E", "L", "_", "M", "E", "T", "R", "I", "C", "_", "E", "X", "P", "O", "R", "T", "_", "P", "E", "R", "I", "O", "D">>,
      default |-> DefaultMetricReportingPeriod, bool |-> FALSE],
     [field |-> "ServiceName", key |-> <<"S", "L", "S", "_", "O", "T", "E", "L", "_", "S", "E", "R", "V", "I", "C", "E", "_", "N", "A", "M", "E">>,
      default |-> EmptyStr, bool |-> FALSE],
     [field |-> "ServiceNamespace", key |-> <<"S", "L", "S", "_", "O", "T", "E", "L", "_", "S", "E", "R", "V", "I", "C", "E", "_", "N", "A", "M", "E", "S", "P", "A", "C", "E">>,
      default |-> EmptyStr, bool |-> FALSE],
     [field |-> "ServiceVersion", key |-> <<"S", "L", "S", "_", "O", "T", "E", "L", "_", "S", "E", "R", "V", "I", "C", "E", "_", "V", "E", "R", "S", "I", "O", "N">>,
      default |-> DefaultServiceVersion, bool |-> FALSE],
     [field |-> "Project", key |-> <<"S", "L", "S", "_", "O", "T", "E", "L", "_", "P", "R", "O", "J", "E", "C", "T">>,
      default |-> EmptyStr, bool |-> FALSE],
     [field |-> "InstanceID", key |-> <<"S", "L", "S", "_", "O", "T", "E", "L", "_", "I", "N", "S", "T", "A", "N", "C", "E", "_", "I", "D">>,
      default |-> EmptyStr, bool |-> FALSE],
     [field |-> "AccessKeyID", key |-> <<"S", "L", "S", "_", "O", "T", "E", "L", "_", "A", "C", "C", "E", "S", "S", "_", "K", "E", "Y", "_", "I", "D">>,
      default |-> EmptyStr, bool |-> FALSE],
     [field |-> "AccessKeySecret", key |-> <<"S", "L", "S", "_", "O", "T", "E", "L", "_", "A", "C", "C", "E", "S", "S", "_", "K", "E", "Y", "_", "S", "E", "C", "R", "E", "T">>,
      default |-> EmptyStr, bool |-> FALSE],
     [field |-> "AttributesEnvKeys", key |-> <<"S", "L", "S", "_", "O", "T", "E", "L", "_", "A", "T", "T", "R", "I", "B", "U", "T", "E", "S", "_", "E", "N", "V", "_", "K", "E", "Y", "S">>,
      default |-> EmptyStr, bool |-> FALSE]}

EnvFields == {t.field : t \in EnvTags}
EnvKeys == {t.key : t \in EnvTags}
TagOf(field) == CHOOSE t \in EnvTags : t.field = field

\* The process environment is a map from the names of the variables that are
\* set to their values.  envconfig's lookup (os.LookupEnv): the variable's
\* value when it is set, even to the empty string, otherwise the tag's default.
lookup(env, tag) == IF tag.key \in DOMAIN env THEN env[tag.key] ELSE tag.default

\* os.Getenv(key): the empty string for a variable that is not set.
Getenv(env, key) == IF key \in DOMAIN env THEN env[key] ELSE EmptyStr

\* envconfig's processField: an empty value leaves the field at its zero
\* value, a string is stored as it is, a bool goes through strconv.ParseBool.
processField(v, tag) ==
    IF v = EmptyStr THEN [ok |-> TRUE, value |-> IF tag.bool THEN FALSE ELSE EmptyStr]
    ELSE IF tag.bool THEN [ok |-> ParseBool(v).ok, value |-> ParseBool(v).b]
    ELSE [ok |-> TRUE, value |-> v]

\* envconfig.Process(ctx, &c) on the zero Config: every tagged field from its
\* variable or default; an error when a bool does not parse.
Process(env) ==
    LET set(field) == processField(lookup(env, TagOf(field)), TagOf(field))
    IN  [ok |-> \A f \in EnvFields : set(f).ok,
         c |-> [f \in DOMAIN ZeroConfig |->
                  IF f \in EnvFields /\ set(f).ok THEN set(f).value ELSE ZeroConfig[f]]]

\* ----------------------------------------------------------------- options
\* An Option is the closure one of the With... functions returns: op names
\* the function and the other fields are the arguments it captured.
ApplyOption(c, o) ==
    CASE o.op = "WithMetricExporterEndpoint" -> [c EXCEPT !.MetricExporterEndpoint = o.url]
      [] o.op = "WithTraceExporterEndpoint" -> [c EXCEPT !.TraceExporterEndpoint = o.url]
      [] o.op = "WithServiceName" -> [c EXCEPT !.ServiceName = o.name]
      [] o.op = "WithServiceNamespace" -> [c EXCEPT !.ServiceNamespace = o.namespace]
      [] o.op = "WithServiceVersion" -> [c EXCEPT !.ServiceVersion = o.version]
      [] o.op = "WithTraceExporterInsecure" ->
           [c EXCEPT !.TraceExporterEndpointInsecure = o.insecure]
      [] o.op = "WithMetricExporterInsecure" ->
           [c EXCEPT !.MetricExporterEndpointInsecure = o.insecure]
      [] o.op = "WithResourceAttributes" -> [c EXCEPT !.resourceAttributes = o.attributes]
      [] o.op = "WithResource" -> [c EXCEPT !.Resource = o.resource]
      [] o.op = "WithErrorHandler" -> [c EXCEPT !.errorHandler = o.handler]
      [] o.op = "WithMetricReportingPeriod" -> [c EXCEPT !.MetricReportingPeriod = Sprint(o.p)]
      [] o.op = "WithSLSConfig" ->
           [c EXCEPT !.Project = o.project, !.InstanceID = o.instanceID,
                     !.AccessKeyID = o.accessKeyID, !.AccessKeySecret = o.accessKeySecret]
      [] o.op = "WithIDGenerator" ->
           IF o.generator # Nil THEN [c EXCEPT !.IDGenerator = o.generator] ELSE c

\* The options applied last to first, so that the first one to set a field
\* would win.
RECURSIVE ApplyOptions_FirstWins(_, _)
ApplyOptions_FirstWins(c, os) ==
    IF os = <<>> THEN c ELSE ApplyOption(ApplyOptions_FirstWins(c, Tail(os)), Head(os))

\* for _, opt := range opts { opt(&c) }
RECURSIVE ApplyOptions(_, _)
ApplyOptions(c, os) ==
    IF os = <<>> THEN c ELSE ApplyOptions(ApplyOption(c, Head(os)), Tail(os))

\* --------------------------------------------------------------- resources
\* semconv.SchemaURL of semconv/v1.17.0, the schema of the resources this
\* package builds.
SchemaURL == "https://opentelemetry.io/schemas/1.17.0"

ServiceNameKey == <<"s", "e", "r", "v", "i", "c", "e", ".", "n", "a", "m", "e">>
HostNameKey == <<"h", "o", "s", "t", ".", "n", "a", "m", "e">>
ServiceNamespaceKey == <<"s", "e", "r", "v", "i", "c", "e", ".", "n", "a", "m", "e", "s", "p", "a", "c", "e">>
ServiceVersionKey == <<"s", "e", "r", "v", "i", "c", "e", ".", "v", "e", "r", "s", "i", "o", "n">>
ProcessPIDKey == <<"p", "r", "o", "c", "e", "s", "s", ".", "p", "i", "d">>
ProcessCommandKey == <<"p", "r", "o", "c", "e", "s", "s", ".", "c", "o", "m", "m", "a", "n", "d">>

StringValue(s) == [type |-> "STRING", v |-> s]
\* An int64 attribute, held by its decimal digits.
IntValue(digits) == [type |-> "INT64", v |-> digits]

\* What the operating system reports: os.Hostname(), os.Getpid(), os.Args[0].
Hostname == <<"h", "o", "s", "t">>
Getpid == <<"4", "2">>
Args0 == <<"a", "p", "p">>

\* m with key set to value (m[key] = value on a Go map, a Set's last-wins).
MapPut(m, key, value) == [k \in DOMAIN m \cup {key} |-> IF k = key THEN value ELSE m[k]]

\* resource.NewWithAttributes(schemaURL, attrs...)
NewWithAttributes(schemaURL, attrs) == [nil |-> FALSE, schemaURL |-> schemaURL, attrs |-> attrs]

\* resource.Merge(a, b): b's value wins on a common key; resources whose
\* schema URLs differ do not merge (Empty() and an error).
Merge(a, b) ==
    CHOOSE result \in
      {IF x.nil /\ y.nil THEN [r |-> EmptyResource, err |-> FALSE]
       ELSE IF x.nil THEN [r |-> y, err |-> FALSE]
       ELSE IF y.nil THEN [r |-> x, err |-> FALSE]
       ELSE IF x.schemaURL # "" /\ y.schemaURL # "" /\ x.schemaURL # y.schemaURL
         THEN [r |-> EmptyResource, err |-> TRUE]
       ELSE [r |-> [nil |-> FALSE,
                    schemaURL |-> IF x.schemaURL = "" THEN y.schemaURL ELSE x.schemaURL,
                    attrs |-> [k \in DOMAIN x.attrs \cup DOMAIN y.attrs |->
                                 IF k \in DOMAIN y.attrs THEN y.attrs[k] ELSE x.attrs[k]]],
             err |-> FALSE] : x \in {a}, y \in {b}} : TRUE

\* The key=value pairs of OTEL_RESOURCE_ATTRIBUTES, later pairs winning;
\* a piece without '=' is skipped.
RECURSIVE EnvPairs(_, _)
EnvPairs(pairs, acc) ==
    IF pairs = <<>> THEN acc
    ELSE LET p == Head(pairs)
             kv == Split(p, "=")
             k == TrimSpace(kv[1])
             v == TrimSpace(Drop(p, Len(kv[1]) + 1))
         IN  IF Len(kv) < 2 THEN EnvPairs(Tail(pairs), acc)
             ELSE EnvPairs(Tail(pairs), MapPut(acc, k, StringValue(v)))

\* resource.Environment(): the schemaless resource the SDK reads from
\* OTEL_RESOURCE_ATTRIBUTES and OTEL_SERVICE_NAME, Empty() when neither is set.
Environment(env) ==
    LET attrs == TrimSpace(Getenv(env, <<"O", "T", "E", "L", "_", "R", "E", "S", "O", "U", "R", "C", "E", "_", "A", "T", "T", "R", "I", "B", "U", "T", "E", "S">>))
        svcName == TrimSpace(Getenv(env, <<"O", "T", "E", "L", "_", "S", "E", "R", "V", "I", "C", "E", "_", "N", "A", "M", "E">>))
        fromAttrs == IF attrs = EmptyStr THEN EmptyMap ELSE EnvPairs(Split(attrs, ","), EmptyMap)
    IN  IF attrs = EmptyStr /\ svcName = EmptyStr THEN EmptyResource
        ELSE NewWithAttributes("",
               IF svcName # EmptyStr THEN MapPut(fromAttrs, ServiceNameKey, StringValue(svcName))
               ELSE fromAttrs)

\* parseEnvKeys: every variable named in AttributesEnvKeys that has a value
\* becomes a resource attribute.  Writing to the nil map panics.
RECURSIVE parseEnvKeysLoop(_, _, _)
parseEnvKeysLoop(envKeys, attributes, env) ==
    IF envKeys = <<>> THEN [panic |-> FALSE, attributes |-> attributes]
    ELSE LET key == TrimSpace(Head(envKeys))
             value == Getenv(env, key)
         IN  IF value = EmptyStr THEN parseEnvKeysLoop(Tail(envKeys), attributes, env)
             ELSE IF attributes.nil THEN [panic |-> TRUE, attributes |-> attributes]
             ELSE parseEnvKeysLoop(Tail(envKeys),
                                   MakeMap(MapPut(attributes.m, key, value)), env)

parseEnvKeys(c, env) ==
    IF c.AttributesEnvKeys = EmptyStr THEN [panic |-> FALSE, c |-> c]
    ELSE LET r == parseEnvKeysLoop(Split(c.AttributesEnvKeys, "|"), c.resourceAttributes, env)
         IN  [panic |-> r.panic, c |-> [c EXCEPT !.resourceAttributes = r.attributes]]

getDefaultResource(c) ==
    NewWithAttributes(SchemaURL,
        [k \in {ServiceNameKey, HostNameKey, ServiceNamespaceKey, ServiceVersionKey,
                ProcessPIDKey, ProcessCommandKey} |->
           CASE k = ServiceNameKey -> StringValue(c.ServiceName)
             [] k = HostNameKey -> StringValue(Hostname)
             [] k = ServiceNamespaceKey -> StringValue(c.ServiceNamespace)
             [] k = ServiceVersionKey -> StringValue(c.ServiceVersion)
             [] k = ProcessPIDKey -> IntValue(Getpid)
             [] k = ProcessCommandKey -> StringValue(Args0)])

\* mergeResource: defaults, then c.Resource, then the environment's resource,
\* then the resource attributes; it returns at the first merge that fails,
\* with c.Resource set to what that merge returned.
mergeResource(c, env) ==
    LET m1 == Merge(getDefaultResource(c), c.Resource)
        m2 == Merge(m1.r, Environment(env))
        newResource == NewWithAttributes(SchemaURL,
                         [k \in DOMAIN c.resourceAttributes.m |->
                            StringValue(c.resourceAttributes.m[k])])
        m3 == Merge(m2.r, newResource)
    IN  IF m1.err THEN [c |-> [c EXCEPT !.Resource = m1.r], err |-> TRUE]
        ELSE IF m2.err THEN [c |-> [c EXCEPT !.Resource = m2.r], err |-> TRUE]
        ELSE [c |-> [c EXCEPT !.Resource = m3.r], err |-> m3.err]

\* -------------------------------------------------------------- validation
NoError == "nil"
ErrEmptyServiceName == "empty service name"
ErrEmptyServiceVersion == "empty service version"
ErrInsecure == "insecure grpc is not allowed when send data to sls directly"
ErrEmptySLS ==
    "empty project, instanceID, accessKeyID or accessKeySecret when send data to sls directly"
ErrInvalidSLS ==
    "invalid project, instanceID, accessKeyID or accessKeySecret when send data to sls directly, you should replace these parameters with actual values"
ErrEnvconfig == "envconfig: invalid value"

\* The characters of the placeholder "${}".
PlaceholderChars == {"$", "{", "}"}

\* IsValid without its test of the insecure flags.
IsValid_NoInsecureCheck(c) ==
    IF c.ServiceName = EmptyStr THEN ErrEmptyServiceName
    ELSE IF c.ServiceVersion = EmptyStr THEN ErrEmptyServiceVersion
    ELSE IF Contains(c.TraceExporterEndpoint, SLSDomain)
            \/ Contains(c.MetricExporterEndpoint, SLSDomain)
      THEN IF c.Project = EmptyStr \/ c.InstanceID = EmptyStr
              \/ c.AccessKeyID = EmptyStr \/ c.AccessKeySecret = EmptyStr
           THEN ErrEmptySLS
           ELSE IF ContainsAny(c.Project, PlaceholderChars)
                   \/ ContainsAny(c.InstanceID, PlaceholderChars)
                   \/ ContainsAny(c.AccessKeyID, PlaceholderChars)
                   \/ ContainsAny(c.AccessKeySecret, PlaceholderChars)
           THEN ErrInvalidSLS
           ELSE NoError
    ELSE NoError

\* IsValid with AccessKeySecret left out of both credential tests.
IsValid_SecretUnchecked(c) ==
    IF c.ServiceName = EmptyStr THEN ErrEmptyServiceName
    ELSE IF c.ServiceVersion = EmptyStr THEN ErrEmptyServiceVersion
    ELSE IF (Contains(c.TraceExporterEndpoint, SLSDomain) /\ c.TraceExporterEndpointInsecure)
            \/ (Contains(c.MetricExporterEndpoint, SLSDomain)
                /\ c.MetricExporterEndpointInsecure)
      THEN ErrInsecure
    ELSE IF Contains(c.TraceExporterEndpoint, SLSDomain)
            \/ Contains(c.MetricExporterEndpoint, SLSDomain)
      THEN IF c.Project = EmptyStr \/ c.InstanceID = EmptyStr \/ c.AccessKeyID = EmptyStr
           THEN ErrEmptySLS
           ELSE IF ContainsAny(c.Project, PlaceholderChars)
                   \/ ContainsAny(c.InstanceID, PlaceholderChars)
                   \/ ContainsAny(c.AccessKeyID, PlaceholderChars)
           THEN ErrInvalidSLS
           ELSE NoError
    ELSE NoError

\* Config.IsValid: the error it returns, NoError for nil.
IsValid(c) ==
    IF c.ServiceName = EmptyStr THEN ErrEmptyServiceName
    ELSE IF c.ServiceVersion = EmptyStr THEN ErrEmptyServiceVersion
    ELSE IF (Contains(c.TraceExporterEndpoint, SLSDomain) /\ c.TraceExporterEndpointInsecure)
            \/ (Contains(c.MetricExporterEndpoint, SLSDomain)
                /\ c.MetricExporterEndpointInsecure)
      THEN ErrInsecure
    ELSE IF Contains(c.TraceExporterEndpoint, SLSDomain)
            \/ Contains(c.MetricExporterEndpoint, SLSDomain)
      THEN IF c.Project = EmptyStr \/ c.InstanceID = EmptyStr
              \/ c.AccessKeyID = EmptyStr \/ c.AccessKeySecret = EmptyStr
           THEN ErrEmptySLS
           ELSE IF ContainsAny(c.Project, PlaceholderChars)
                   \/ ContainsAny(c.InstanceID, PlaceholderChars)
                   \/ ContainsAny(c.AccessKeyID, PlaceholderChars)
                   \/ ContainsAny(c.AccessKeySecret, PlaceholderChars)
           THEN ErrInvalidSLS
           ELSE NoError
    ELSE NoError

\* ---------------------------------------------------------------- exporters
slsProjectHeader == "x-sls-otel-project"
slsInstanceIDHeader == "x-sls-otel-instance-id"
slsAccessKeyIDHeader == "x-sls-otel-ak-id"
slsAccessKeySecretHeader == "x-sls-otel-ak-secret"
slsSecurityTokenHeader == "x-sls-otel-token"

\* An exporter value of interface type: the constructor that built it, the
\* initOtelExporter call it was built in ("trace" for the trace endpoint,
\* "metric" for the metric endpoint) and the options it was given.
\* NilExporter is the nil interface.  nilPointer marks a non-nil interface
\* that holds a nil pointer.
NilExporter ==
    [nil |-> TRUE, nilPointer |-> FALSE, kind |-> "", call |-> "", endpoint |-> EmptyStr,
     insecure |-> FALSE, headers |-> EmptyMap]

NewExporter(kind, call, endpoint, insecure, headers) ==
    [nil |-> FALSE, nilPointer |-> FALSE, kind |-> kind, call |-> call,
     endpoint |-> endpoint, insecure |-> insecure, headers |-> headers]

\* The constructors Start reaches, by initOtelExporter call and signal, and
\* the two instrumentation starts: the points where the SDK can return an error.
FaultPoints ==
    {"trace:traceExporter", "trace:metricsExporter", "metric:traceExporter",
     "metric:metricsExporter", "host.Start", "runtime.Start"}

\* Most SDK calls that fail in one Start.
MaxFaults == 1

FaultSets == {f \in SUBSET FaultPoints : Cardinality(f) <= MaxFaults}

\* traceExporter, err = stdouttrace.New(...) / otlptrace.New(...): the
\* variable after the assignment.  The caller returns at once on an error.
Construct(exporter, failed) == IF failed THEN NilExporter ELSE exporter

\* metricsExporter, err = otlpmetricgrpc.New(...): New returns (*Exporter,
\* error), so after a failure the interface variable holds a nil *Exporter
\* and does not compare equal to nil.
ConstructMetric(exporter, failed) ==
    IF failed THEN [exporter EXCEPT !.nilPointer = TRUE] ELSE exporter

\* The headers with the test of InstanceID left out.
Headers_ProjectOnly(c) ==
    IF c.Project # EmptyStr
    THEN [h \in {slsProjectHeader, slsInstanceIDHeader, slsAccessKeyIDHeader,
                 slsAccessKeySecretHeader} |->
            CASE h = slsProjectHeader -> c.Project
              [] h = slsInstanceIDHeader -> c.InstanceID
              [] h = slsAccessKeyIDHeader -> c.AccessKeyID
              [] h = slsAccessKeySecretHeader -> c.AccessKeySecret]
    ELSE EmptyMap

\* The headers of the gRPC exporters.
Headers(c) ==
    IF c.Project # EmptyStr /\ c.InstanceID # EmptyStr
    THEN [h \in {slsProjectHeader, slsInstanceIDHeader, slsAccessKeyIDHeader,
                 slsAccessKeySecretHeader} |->
            CASE h = slsProjectHeader -> c.Project
              [] h = slsInstanceIDHeader -> c.InstanceID
              [] h = slsAccessKeyIDHeader -> c.AccessKeyID
              [] h = slsAccessKeySecretHeader -> c.AccessKeySecret]
    ELSE EmptyMap

\* A constructor call in the log, with the endpoint and the headers it was
\* given.
Constructed(fn, call, endpoint, headers, failed) ==
    [fn |-> fn, on |-> call, endpoint |-> endpoint, headers |-> headers, ok |-> ~failed]

\* The branch without its test for the empty string: an empty endpoint would
\* get gRPC exporters.
ExporterKind_NoEmptyCheck(otlpEndpoint) ==
    IF otlpEndpoint = Stdout THEN "stdout" ELSE "grpc"

\* The branch of initOtelExporter on the endpoint string.
ExporterKind(otlpEndpoint) ==
    IF otlpEndpoint = Stdout THEN "stdout"
    ELSE IF otlpEndpoint # EmptyStr THEN "grpc"
    ELSE "none"

\* Config.initOtelExporter(otlpEndpoint, insecure), as the call named call,
\* with the constructors in faults failing: the four results and the
\* constructor calls made.  exporterStop is the closure over the
\* traceExporter variable (a nil func when the function returns early); the
\* error of the metric constructors is assigned and never read.
initOtelExporter(c, call, otlpEndpoint, insecure, faults) ==
    LET traceFails == (call \o ":traceExporter") \in faults
        kind == ExporterKind(otlpEndpoint)
        \* stdoutmetric.New builds its exporter in memory and returns a nil error
        metricFails == kind = "grpc" /\ (call \o ":metricsExporter") \in faults
        traceNew == IF kind = "stdout" THEN "stdouttrace.New" ELSE "otlptrace.New"
        metricNew == IF kind = "stdout" THEN "stdoutmetric.New" ELSE "otlpmetricgrpc.New"
        headers == IF kind = "stdout" THEN EmptyMap ELSE Headers(c)
        withInsecure == IF kind = "stdout" THEN FALSE ELSE insecure
        withEndpoint == IF kind = "stdout" THEN EmptyStr ELSE otlpEndpoint
        traceExporter ==
            Construct(NewExporter(traceNew, call, withEndpoint, withInsecure, headers),
                      traceFails)
        metricsExporter ==
            ConstructMetric(NewExporter(metricNew, call, withEndpoint, withInsecure, headers),
                            metricFails)
    IN  IF kind = "none"
          THEN [traceExporter |-> NilExporter, metricsExporter |-> NilExporter,
                exporterStop |-> [nil |-> FALSE, call |-> call, traceExporter |-> NilExporter],
                err |-> FALSE, log |-> <<>>]
        ELSE IF traceFails
          THEN [traceExporter |-> NilExporter, metricsExporter |-> NilExporter,
                exporterStop |-> [nil |-> TRUE, call |-> call, traceExporter |-> NilExporter],
                err |-> TRUE, log |-> <<Constructed(traceNew, call, withEndpoint, headers, TRUE)>>]
        ELSE [traceExporter |-> traceExporter, metricsExporter |-> metricsExporter,
              exporterStop |-> [nil |-> FALSE, call |-> call, traceExporter |-> traceExporter],
              err |-> FALSE,
              log |-> <<Constructed(traceNew, call, withEndpoint, headers, FALSE),
                        Constructed(metricNew, call, withEndpoint, headers, metricFails)>>]

\* ---------------------------------------------------------------- providers
\* The globals of package otel that Start writes.
NilProvider ==
    [nil |-> TRUE, exporter |-> NilExporter, interval |-> Seconds(0),
     idGenerator |-> Nil, resource |-> NilResource]

InitialGlobals ==
    [errorHandler |-> "default", tracerProvider |-> NilProvider,
     meterProvider |-> NilProvider, textMapPropagator |-> "none"]

\* An SDK call in the log that is not a constructor.
Called(fn, on) == [fn |-> fn, on |-> on]

\* A stop callback: the closure appended to c.stop, over the signal's
\* provider and the exporter stop function of the signal's call.
StopCallback(signal, provider, stop) == [signal |-> signal, provider |-> provider, stop |-> stop]

\* The period initMetric falls back to.
DefaultCollectPeriod == Seconds(30)

\* period, err := time.ParseDuration(c.MetricReportingPeriod), 30s on an error.
CollectPeriod(c) ==
    LET parsed == ParseDuration(c.MetricReportingPeriod)
    IN  IF ~parsed.ok THEN DefaultCollectPeriod ELSE parsed.d

\* initTracer without its test for a nil exporter: a disabled trace signal
\* would still get a provider and a callback.
initTracer_NoNilCheck(c, w, traceExporter, stop) ==
    LET tp == [nil |-> FALSE, exporter |-> traceExporter, interval |-> Seconds(0),
               idGenerator |-> c.IDGenerator, resource |-> c.Resource]
    IN  [w |-> [stop |-> Append(w.stop, StopCallback("trace", "TracerProvider", stop)),
                globals |-> [w.globals EXCEPT !.tracerProvider = tp,
                                              !.textMapPropagator = "TraceContext,Baggage"],
                log |-> w.log \o <<Called("sdktrace.NewTracerProvider", "TracerProvider"),
                                   Called("otel.SetTracerProvider", "TracerProvider"),
                                   Called("otel.SetTextMapPropagator", "TraceContext,Baggage")>>],
         err |-> FALSE]

\* Config.initTracer(traceExporter, stop, config) on the world w = [stop,
\* globals, log]: nothing for a nil exporter.
initTracer(c, w, traceExporter, stop) ==
    IF traceExporter.nil THEN [w |-> w, err |-> FALSE]
    ELSE LET tp == [nil |-> FALSE, exporter |-> traceExporter, interval |-> Seconds(0),
                    idGenerator |-> c.IDGenerator, resource |-> c.Resource]
         IN  [w |-> [stop |-> Append(w.stop, StopCallback("trace", "TracerProvider", stop)),
                     globals |-> [w.globals EXCEPT !.tracerProvider = tp,
                                                   !.textMapPropagator = "TraceContext,Baggage"],
                     log |-> w.log \o <<Called("sdktrace.NewTracerProvider", "TracerProvider"),
                                        Called("otel.SetTracerProvider", "TracerProvider"),
                                        Called("otel.SetTextMapPropagator", "TraceContext,Baggage")>>],
              err |-> FALSE]

\* Config.initMetric(metricsExporter, stop): nothing for a nil exporter; the
\* callback is appended after host.Start succeeded, whatever runtime.Start returns.
initMetric(c, w, metricsExporter, stop, faults) ==
    IF metricsExporter.nil THEN [w |-> w, err |-> FALSE]
    ELSE LET mp == [nil |-> FALSE, exporter |-> metricsExporter, interval |-> CollectPeriod(c),
                    idGenerator |-> Nil, resource |-> c.Resource]
             set == [w EXCEPT !.globals.meterProvider = mp,
                              !.log = @ \o <<Called("metric.NewMeterProvider", "MeterProvider"),
                                             Called("global.SetMeterProvider", "MeterProvider"),
                                             Called("host.Start", "MeterProvider")>>]
         IN  IF "host.Start" \in faults THEN [w |-> set, err |-> TRUE]
             ELSE [w |-> [set EXCEPT !.log = @ \o <<Called("runtime.Start", "MeterProvider")>>,
                                     !.stop = Append(@, StopCallback("metric", "MeterProvider", stop))],
                   err |-> "runtime.Start" \in faults]

\* Start with the error handler installed at its end instead of its
\* beginning.
StartResult_HandlerLast(c, globals, faults) ==
    LET w0 == [stop |-> c.stop, globals |-> globals, log |-> <<>>]
        t == initOtelExporter(c, "trace", c.TraceExporterEndpoint,
                              c.TraceExporterEndpointInsecure, faults)
        w1 == [w0 EXCEPT !.log = @ \o t.log]
        m == initOtelExporter(c, "metric", c.MetricExporterEndpoint,
                              c.MetricExporterEndpointInsecure, faults)
        w2 == [w1 EXCEPT !.log = @ \o m.log]
        tr == initTracer(c, w2, t.traceExporter, t.exporterStop)
        me == initMetric(c, tr.w, m.metricsExporter, m.exporterStop, faults)
        install(w) == IF c.errorHandler # Nil
                      THEN [w EXCEPT !.globals.errorHandler = c.errorHandler,
                                     !.log = @ \o <<Called("otel.SetErrorHandler",
                                                            c.errorHandler)>>]
                      ELSE w
    IN  IF t.err THEN [w |-> install(w1), err |-> TRUE, nilPointer |-> FALSE]
        ELSE IF m.err THEN [w |-> install(w2), err |-> TRUE, nilPointer |-> FALSE]
        ELSE IF tr.err THEN [w |-> install(tr.w), err |-> TRUE, nilPointer |-> FALSE]
        ELSE [w |-> install(me.w), err |-> me.err,
              nilPointer |-> m.metricsExporter.nilPointer]

\* Start(c) with the SDK calls in faults failing: c.stop, the globals and
\* the log afterwards, and whether it returns an error.  nilPointer tells
\* that initMetric handed the SDK an exporter that is a nil pointer.
StartResult(c, globals, faults) ==
    LET w0 == [stop |-> c.stop,
               globals |-> IF c.errorHandler # Nil
                           THEN [globals EXCEPT !.errorHandler = c.errorHandler] ELSE globals,
               log |-> IF c.errorHandler # Nil
                       THEN <<Called("otel.SetErrorHandler", c.errorHandler)>> ELSE <<>>]
        t == initOtelExporter(c, "trace", c.TraceExporterEndpoint,
                              c.TraceExporterEndpointInsecure, faults)
        w1 == [w0 EXCEPT !.log = @ \o t.log]
        m == initOtelExporter(c, "metric", c.MetricExporterEndpoint,
                              c.MetricExporterEndpointInsecure, faults)
        w2 == [w1 EXCEPT !.log = @ \o m.log]
        tr == initTracer(c, w2, t.traceExporter, t.exporterStop)
        me == initMetric(c, tr.w, m.metricsExporter, m.exporterStop, faults)
    IN  IF t.err THEN [w |-> w1, err |-> TRUE, nilPointer |-> FALSE]
        ELSE IF m.err THEN [w |-> w2, err |-> TRUE, nilPointer |-> FALSE]
        ELSE IF tr.err THEN [w |-> tr.w, err |-> TRUE, nilPointer |-> FALSE]
        ELSE [w |-> me.w, err |-> me.err, nilPointer |-> m.metricsExporter.nilPointer]

\* ----------------------------------------------------------------- Shutdown
\* exporterStop(): the trace exporter of its call is shut down, if there is one.
RunExporterStop(stop) ==
    <<Called("exporterStop", stop.call)>>
    \o (IF ~stop.traceExporter.nil
        THEN <<Called("Shutdown", stop.traceExporter.call \o ":traceExporter")>> ELSE <<>>)

\* A callback that calls stop() before the provider's Shutdown.
RunStopCallback_ExporterFirst(cb) ==
    RunExporterStop(cb.stop) \o <<Called("Shutdown", cb.provider)>>

\* The body of a stop callback: the provider's Shutdown, then stop().
RunStopCallback(cb) ==
    <<Called("Shutdown", cb.provider)>> \o RunExporterStop(cb.stop)

\* The callbacks run last to first, as deferred calls would.
RECURSIVE ShutdownLog_LastFirst(_)
ShutdownLog_LastFirst(stop) ==
    IF stop = <<>> THEN <<>>
    ELSE ShutdownLog_LastFirst(Tail(stop))
         \o <<Called("stop", Head(stop).signal)>> \o RunStopCallback(Head(stop))

\* for _, stop := range c.stop { stop() }: the calls made, in order.
RECURSIVE ShutdownLog(_)
ShutdownLog(stop) ==
    IF stop = <<>> THEN <<>>
    ELSE <<Called("stop", Head(stop).signal)>> \o RunStopCallback(Head(stop))
         \o ShutdownLog(Tail(stop))

\* ------------------------------------------------------------------- inputs
\* Endpoints: a plain gRPC collector, an SLS endpoint, and two strings that
\* are close to "stdout" and to the SLS domain without being them.
LocalEndpoint == <<"h", ":", "1">>
SLSEndpoint == <<"p", ".">> \o SLSDomain \o <<":", "1">>
UpperStdout == <<"S", "T", "D", "O", "U", "T">>
NearSLSEndpoint == <<"l", "o", "g", ".", "a", "l", "i", "y", "u", "n", "c", "s", ".", "c", "o">>

\* The schema URL of another semconv version, as a resource built with that
\* version carries it.
OtherSchemaURL == "https://opentelemetry.io/schemas/1.21.0"

\* The process environments NewConfig is run under.
Var(name, value) == name :> value

Environments ==
    {EmptyMap,
     Var(<<"S", "L", "S", "_", "O", "T", "E", "L", "_", "S", "E", "R", "V", "I", "C", "E", "_", "N", "A", "M", "E">>, <<"s", "v", "c">>),
     Var(<<"S", "L", "S", "_", "O", "T", "E", "L", "_", "S", "E", "R", "V", "I", "C", "E", "_", "N", "A", "M", "E">>, <<"s", "v", "c">>)
       @@ Var(<<"S", "L", "S", "_", "O", "T", "E", "L", "_", "T", "R", "A", "C", "E", "_", "E", "N", "D", "P", "O", "I", "N", "T">>, SLSEndpoint)
       @@ Var(<<"S", "L", "S", "_", "O", "T", "E", "L", "_", "P", "R", "O", "J", "E", "C", "T">>, <<"p">>) @@ Var(<<"S", "L", "S", "_", "O", "T", "E", "L", "_", "I", "N", "S", "T", "A", "N", "C", "E", "_", "I", "D">>, <<"i">>)
       @@ Var(<<"S", "L", "S", "_", "O", "T", "E", "L", "_", "A", "C", "C", "E", "S", "S", "_", "K", "E", "Y", "_", "I", "D">>, <<"a">>) @@ Var(<<"S", "L", "S", "_", "O", "T", "E", "L", "_", "A", "C", "C", "E", "S", "S", "_", "K", "E", "Y", "_", "S", "E", "C", "R", "E", "T">>, <<"s">>),
     Var(<<"S", "L", "S", "_", "O", "T", "E", "L", "_", "S", "E", "R", "V", "I", "C", "E", "_", "N", "A", "M", "E">>, <<"s", "v", "c">>)
       @@ Var(<<"S", "L", "S", "_", "O", "T", "E", "L", "_", "M", "E", "T", "R", "I", "C", "_", "E", "N", "D", "P", "O", "I", "N", "T">>, SLSEndpoint)
       @@ Var(<<"S", "L", "S", "_", "O", "T", "E", "L", "_", "M", "E", "T", "R", "I", "C", "_", "I", "N", "S", "E", "C", "U", "R", "E">>, <<"1">>)
       @@ Var(<<"S", "L", "S", "_", "O", "T", "E", "L", "_", "P", "R", "O", "J", "E", "C", "T">>, <<"p">>) @@ Var(<<"S", "L", "S", "_", "O", "T", "E", "L", "_", "I", "N", "S", "T", "A", "N", "C", "E", "_", "I", "D">>, <<"$", "{", "i", "}">>)
       @@ Var(<<"S", "L", "S", "_", "O", "T", "E", "L", "_", "A", "C", "C", "E", "S", "S", "_", "K", "E", "Y", "_", "I", "D">>, <<"a">>),
     Var(<<"S", "L", "S", "_", "O", "T", "E", "L", "_", "S", "E", "R", "V", "I", "C", "E", "_", "N", "A", "M", "E">>, <<"s", "v", "c">>)
       @@ Var(<<"S", "L", "S", "_", "O", "T", "E", "L", "_", "T", "R", "A", "C", "E", "_", "I", "N", "S", "E", "C", "U", "R", "E">>, <<"y", "e", "s">>),
     Var(<<"S", "L", "S", "_", "O", "T", "E", "L", "_", "S", "E", "R", "V", "I", "C", "E", "_", "N", "A", "M", "E">>, <<"s", "v", "c">>)
       @@ Var(<<"S", "L", "S", "_", "O", "T", "E", "L", "_", "A", "T", "T", "R", "I", "B", "U", "T", "E", "S", "_", "E", "N", "V", "_", "K", "E", "Y", "S">>, <<"K", "1", "|", " ", "K", "2">>)
       @@ Var(<<"K", "1">>, <<"v", "1">>),
     Var(<<"S", "L", "S", "_", "O", "T", "E", "L", "_", "A", "T", "T", "R", "I", "B", "U", "T", "E", "S", "_", "E", "N", "V", "_", "K", "E", "Y", "S">>, <<"K", "2">>)
       @@ Var(<<"K", "2">>, <<"v", "2">>)
       @@ Var(<<"S", "L", "S", "_", "O", "T", "E", "L", "_", "T", "R", "A", "C", "E", "_", "E", "N", "D", "P", "O", "I", "N", "T">>, SLSEndpoint)
       @@ Var(<<"S", "L", "S", "_", "O", "T", "E", "L", "_", "T", "R", "A", "C", "E", "_", "I", "N", "S", "E", "C", "U", "R", "E">>, <<"t", "r", "u", "e">>),
     Var(<<"S", "L", "S", "_", "O", "T", "E", "L", "_", "S", "E", "R", "V", "I", "C", "E", "_", "N", "A", "M", "E">>, <<"s", "v", "c">>)
       @@ Var(<<"S", "L", "S", "_", "O", "T", "E", "L", "_", "M", "E", "T", "R", "I", "C", "_", "E", "X", "P", "O", "R", "T", "_", "P", "E", "R", "I", "O", "D">>, <<"9", "0">>)
       @@ Var(<<"S", "L", "S", "_", "O", "T", "E", "L", "_", "M", "E", "T", "R", "I", "C", "_", "E", "N", "D", "P", "O", "I", "N", "T">>, NearSLSEndpoint)
       @@ Var(<<"S", "L", "S", "_", "O", "T", "E", "L", "_", "M", "E", "T", "R", "I", "C", "_", "I", "N", "S", "E", "C", "U", "R", "E">>, <<"T">>)
       @@ Var(<<"S", "L", "S", "_", "O", "T", "E", "L", "_", "T", "R", "A", "C", "E", "_", "E", "N", "D", "P", "O", "I", "N", "T">>, EmptyStr)
       @@ Var(<<"S", "L", "S", "_", "O", "T", "E", "L", "_", "P", "R", "O", "J", "E", "C", "T">>, <<"p">>)
       @@ Var(<<"O", "T", "E", "L", "_", "R", "E", "S", "O", "U", "R", "C", "E", "_", "A", "T", "T", "R", "I", "B", "U", "T", "E", "S">>, <<"K", "1", "=", "e", "1", ",", "z", "o", "n", "e", "=", "z">>)}

\* The durations handed to WithMetricReportingPeriod.
Periods ==
    {Duration(FALSE, 60, 0), Duration(FALSE, 3661, 500000000), Duration(FALSE, 0, 1500),
     Duration(FALSE, 0, 0), Duration(TRUE, 1, 1)}

\* The options handed to NewConfig.
OptionPool ==
    {[op |-> "WithTraceExporterEndpoint", url |-> e] : e \in {EmptyStr, SLSEndpoint, UpperStdout}}
    \cup {[op |-> "WithMetricExporterEndpoint", url |-> e] : e \in {EmptyStr, LocalEndpoint}}
    \cup {[op |-> "WithServiceName", name |-> n] : n \in {EmptyStr, <<"a", "p", "p">>}}
    \cup {[op |-> "WithServiceNamespace", namespace |-> <<"n", "s">>]}
    \cup {[op |-> "WithServiceVersion", version |-> EmptyStr]}
    \cup {[op |-> "WithTraceExporterInsecure", insecure |-> TRUE]}
    \cup {[op |-> "WithMetricExporterInsecure", insecure |-> b] : b \in BOOLEAN}
    \cup {[op |-> "WithResourceAttributes", attributes |-> MakeMap(Var(<<"K", "1">>, <<"a", "1">>))]}
    \cup {[op |-> "WithResource",
           resource |-> NewWithAttributes(s, Var(<<"z", "o", "n", "e">>, StringValue(<<"r">>)))] :
             s \in {SchemaURL, OtherSchemaURL}}
    \cup {[op |-> "WithErrorHandler", handler |-> h] : h \in {Nil, "handler"}}
    \cup {[op |-> "WithMetricReportingPeriod", p |-> p] : p \in Periods}
    \cup {[op |-> "WithSLSConfig", project |-> <<"p">>, instanceID |-> <<"i">>,
           accessKeyID |-> <<"a">>, accessKeySecret |-> s] : s \in {EmptyStr, <<"s">>, <<"$", "{", "s", "}">>}}
    \cup {[op |-> "WithIDGenerator", generator |-> g] : g \in {Nil, "generator"}}

OptionLists == UNION {[1..n -> OptionPool] : n \in 0..MaxOpts}

\* -------------------------------------------------------------------- state
VARIABLES
    environ,    \* the process environment
    opts,       \* the options NewConfig was called with
    pc,         \* where the program is: "init", then "configured" (NewConfig
                \* returned a Config), "noconfig" (it returned nil and an error)
                \* or "panicked", then "started" (Start returned) or
                \* "startPanicked", then "stopped"
    c,          \* the Config NewConfig returned
    err,        \* the error NewConfig returned
    globals,    \* the globals of package otel
    startErr,   \* whether Start returned an error
    log,        \* the SDK calls made so far, in order
    run         \* where a Start and a Shutdown that run concurrently are, with
                \* their local variables

vars == <<environ, opts, pc, c, err, globals, startErr, log, run>>

\* Neither Start nor Shutdown has been called concurrently.
NilStop == [nil |-> TRUE, call |-> "", traceExporter |-> NilExporter]

IdleRun ==
    [start |-> "idle", shutdown |-> "idle", faults |-> {},
     traceExporter |-> NilExporter, traceExpStop |-> NilStop,
     metricExporter |-> NilExporter, metricExpStop |-> NilStop,
     appended |-> <<>>, err |-> FALSE, ranged |-> <<>>, i |-> 1]

Init ==
    /\ environ \in Environments
    /\ opts = <<>>
    /\ pc = "init"
    /\ c = ZeroConfig
    /\ err = NoError
    /\ globals = InitialGlobals
    /\ startErr = FALSE
    /\ log = <<>>
    /\ run = IdleRun

\* c, err := provider.NewConfig(opts...), opts being one of lists:
\* envconfig.Process, the options in order, parseEnvKeys, mergeResource (its error dropped), IsValid.  It
\* returns (nil, envError) when Process fails and panics when parseEnvKeys
\* writes to the nil map.
NewConfigFrom(lists) ==
    /\ pc = "init"
    /\ \E os \in lists :
         /\ opts' = os
         /\ \E loaded \in {Process(environ)} :
              IF ~loaded.ok
              THEN /\ pc' = "noconfig"
                   /\ c' = ZeroConfig
                   /\ err' = ErrEnvconfig
              ELSE \E parsed \in {parseEnvKeys(ApplyOptions(loaded.c, os), environ)} :
                     IF parsed.panic
                     THEN /\ pc' = "panicked"
                          /\ c' = ZeroConfig
                          /\ err' = NoError
                     ELSE \E merged \in {mergeResource(parsed.c, environ)} :
                            /\ pc' = "configured"
                            /\ c' = merged.c
                            /\ err' = IsValid(merged.c)
    /\ UNCHANGED <<environ, globals, startErr, log, run>>

\* NewConfig with any of the option lists.
NewConfig == NewConfigFrom(OptionLists)

\* provider.Start(c), which the program calls once NewConfig returned no
\* error.  With a nil-pointer exporter in the meter provider the SDK's calls
\* on it may panic inside Start.
Start ==
    /\ pc = "configured"
    /\ err = NoError
    /\ \E faults \in FaultSets :
         \E r \in {StartResult(c, globals, faults)} :
             /\ c' = [c EXCEPT !.stop = r.w.stop]
             /\ globals' = r.w.globals
             /\ log' = r.w.log
             /\ startErr' = r.err
             /\ pc' \in IF r.nilPointer THEN {"started", "startPanicked"} ELSE {"started"}
    /\ UNCHANGED <<environ, opts, err, run>>

\* provider.Shutdown(c)
Shutdown ==
    /\ pc = "started"
    /\ log' = log \o ShutdownLog(c.stop)
    /\ pc' = "stopped"
    /\ UNCHANGED <<environ, opts, c, err, globals, startErr, run>>

Next == NewConfig \/ Start \/ Shutdown

Spec == Init /\ [][Next]_vars


\* ------------------------------------------- Start and Shutdown, concurrent
\* Two goroutines, one in Start(c) and one in Shutdown(c), on the Config
\* NewConfig returned.  Neither function takes a lock, so the steps below
\* interleave freely; a step ends at each access to c.stop.

\* Longest list of options of a concurrent run.
MaxConcurrentOpts == 2

\* The options of a concurrent run: the endpoints, which decide what Start
\* registers.
ConcurrentOptionPool ==
    {[op |-> "WithTraceExporterEndpoint", url |-> e] : e \in {EmptyStr, UpperStdout}}
    \cup {[op |-> "WithMetricExporterEndpoint", url |-> e] : e \in {EmptyStr, LocalEndpoint}}

ConcurrentOptionLists == UNION {[1..n -> ConcurrentOptionPool] : n \in 0..MaxConcurrentOpts}

\* NewConfig before the goroutines start.
ConcurrentNewConfig == NewConfigFrom(ConcurrentOptionLists)

\* The goroutines run once NewConfig returned no error.
Running == pc = "configured" /\ err = NoError

\* Start up to the call of initTracer: the error handler and the two calls of
\* initOtelExporter.
Start_initOtelExporter ==
    /\ Running
    /\ run.start = "idle"
    /\ \E faults \in FaultSets :
         \E t \in {initOtelExporter(c, "trace", c.TraceExporterEndpoint,
                                    c.TraceExporterEndpointInsecure, faults)} :
         \E m \in {initOtelExporter(c, "metric", c.MetricExporterEndpoint,
                                    c.MetricExporterEndpointInsecure, faults)} :
           /\ globals' = IF c.errorHandler # Nil
                         THEN [globals EXCEPT !.errorHandler = c.errorHandler] ELSE globals
           /\ log' = log
                     \o (IF c.errorHandler # Nil
                         THEN <<Called("otel.SetErrorHandler", c.errorHandler)>> ELSE <<>>)
                     \o t.log \o (IF t.err THEN <<>> ELSE m.log)
           /\ startErr' = (t.err \/ m.err)
           /\ run' = [run EXCEPT !.start = IF t.err \/ m.err THEN "returned" ELSE "initTracer",
                                 !.faults = faults,
                                 !.traceExporter = t.traceExporter,
                                 !.traceExpStop = t.exporterStop,
                                 !.metricExporter = m.metricsExporter,
                                 !.metricExpStop = m.exporterStop]
    /\ UNCHANGED <<environ, opts, pc, c, err>>

\* initTracer up to its append: c.stop is read and the slice with the
\* callback appended is built, not yet stored.
Start_initTracer ==
    /\ Running
    /\ run.start = "initTracer"
    /\ \E tr \in {initTracer(c, [stop |-> c.stop, globals |-> globals, log |-> log],
                             run.traceExporter, run.traceExpStop)} :
         /\ globals' = tr.w.globals
         /\ log' = tr.w.log
         /\ run' = [run EXCEPT !.start = IF tr.w.stop # c.stop THEN "appendTrace"
                                         ELSE "initMetric",
                               !.appended = tr.w.stop]
    /\ UNCHANGED <<environ, opts, pc, c, err, startErr>>

\* initMetric up to its append, or to its return where it does not append.
\* The SDK may panic on an exporter that is a nil pointer.
Start_initMetric ==
    /\ Running
    /\ run.start = "initMetric"
    /\ \E me \in {initMetric(c, [stop |-> c.stop, globals |-> globals, log |-> log],
                             run.metricExporter, run.metricExpStop, run.faults)} :
       \E panics \in IF run.metricExporter.nilPointer THEN BOOLEAN ELSE {FALSE} :
         /\ globals' = me.w.globals
         /\ log' = me.w.log
         /\ startErr' = IF me.w.stop # c.stop \/ panics THEN startErr ELSE me.err
         /\ run' = [run EXCEPT !.start = IF panics THEN "panicked"
                                         ELSE IF me.w.stop # c.stop THEN "appendMetric"
                                         ELSE "returned",
                               !.appended = me.w.stop,
                               !.err = me.err]
    /\ UNCHANGED <<environ, opts, pc, c, err>>

\* c.stop = append(c.stop, ...): the store of the new slice, after which
\* initTracer returns to Start and initMetric returns Start's result.
Start_append ==
    /\ Running
    /\ run.start \in {"appendTrace", "appendMetric"}
    /\ c' = [c EXCEPT !.stop = run.appended]
    /\ startErr' = IF run.start = "appendMetric" THEN run.err ELSE startErr
    /\ run' = [run EXCEPT !.start = IF run.start = "appendTrace" THEN "initMetric"
                                    ELSE "returned"]
    /\ UNCHANGED <<environ, opts, pc, err, globals, log>>

\* What a read of c.stop may see: the slice stored, and while Start's store
\* of the appended slice is under way also that slice, or a slice header made
\* of words of both (torn), which a data race on the three words allows.
ReadStop ==
    IF run.start \in {"appendTrace", "appendMetric"}
    THEN {[torn |-> FALSE, stop |-> c.stop], [torn |-> FALSE, stop |-> run.appended],
          [torn |-> TRUE, stop |-> <<>>]}
    ELSE {[torn |-> FALSE, stop |-> c.stop]}

\* for _, stop := range c.stop: the range expression is evaluated once,
\* before the first iteration.  A torn slice header crashes the goroutine.
Shutdown_range ==
    /\ Running
    /\ run.shutdown = "idle"
    /\ \E read \in ReadStop :
         run' = IF read.torn THEN [run EXCEPT !.shutdown = "crashed"]
                ELSE [run EXCEPT !.shutdown = "ranging", !.ranged = read.stop, !.i = 1]
    /\ UNCHANGED <<environ, opts, pc, c, err, globals, startErr, log>>

\* The slice that Shutdown's loop iterates over, given the slice its range
\* clause read and the slice c.stop holds now.
RangeOver_Reread(ranged, stop) == stop

RangeOver(ranged, stop) == ranged

\* One iteration: stop().
Shutdown_stop ==
    /\ Running
    /\ run.shutdown = "ranging"
    /\ run.i <= Len(RangeOver(run.ranged, c.stop))
    /\ log' = log \o ShutdownLog(<<RangeOver(run.ranged, c.stop)[run.i]>>)
    /\ run' = [run EXCEPT !.i = @ + 1]
    /\ UNCHANGED <<environ, opts, pc, c, err, globals, startErr>>

\* The loop is over: Shutdown returns.
Shutdown_return ==
    /\ Running
    /\ run.shutdown = "ranging"
    /\ run.i > Len(RangeOver(run.ranged, c.stop))
    /\ run' = [run EXCEPT !.shutdown = "returned"]
    /\ UNCHANGED <<environ, opts, pc, c, err, globals, startErr, log>>

ConcurrentNext ==
    \/ ConcurrentNewConfig
    \/ Start_initOtelExporter
    \/ Start_initTracer
    \/ Start_initMetric
    \/ Start_append
    \/ Shutdown_range
    \/ Shutdown_stop
    \/ Shutdown_return

ConcurrentSpec == Init /\ [][ConcurrentNext]_vars


\* --------------------------------------------------------------- properties
\* NewConfig returned a Config.
Returned == pc \in {"configured", "started", "startPanicked", "stopped"}

\* Start returned.
StartReturned == pc \in {"started", "stopped"}

\* Start returned nil.
StartedWithoutError == StartReturned /\ ~startErr

Constructors == {"stdouttrace.New", "stdoutmetric.New", "otlptrace.New", "otlpmetricgrpc.New"}
StdoutConstructors == {"stdouttrace.New", "stdoutmetric.New"}
GRPCConstructors == {"otlptrace.New", "otlpmetricgrpc.New"}
TraceConstructors == {"stdouttrace.New", "otlptrace.New"}

\* An exporter constructor returned an error during Start.
ConstructionFailed == \E i \in DOMAIN log : log[i].fn \in Constructors /\ ~log[i].ok

\* The signals of the callbacks in a stop list, in order.
Signals(stop) == [i \in 1..Len(stop) |-> stop[i].signal]

\* The signals whose endpoint is not empty, trace first.
EnabledSignals ==
    (IF c.TraceExporterEndpoint # EmptyStr THEN <<"trace">> ELSE <<>>)
    \o (IF c.MetricExporterEndpoint # EmptyStr THEN <<"metric">> ELSE <<>>)

\* The signals of the callbacks Shutdown has invoked, in order.
StopsRun ==
    LET stops == SelectSeq(log, LAMBDA e : e.fn = "stop")
    IN  [i \in 1..Len(stops) |-> stops[i].on]

\* C1: after a Start that returned nil, c.stop holds exactly one callback per
\* enabled signal, the trace callback before the metric callback; no callback
\* runs before Shutdown, and Shutdown invokes every callback of c.stop exactly
\* once, in registration order.
C1_OneCallbackPerSignalRunInOrder ==
    /\ StartedWithoutError => Signals(c.stop) = EnabledSignals
    /\ pc = "started" => StopsRun = <<>>
    /\ pc = "stopped" => StopsRun = Signals(c.stop)

\* Both signals were started without an error and shut down.
C1_BothSignalsShutDown ==
    /\ pc = "stopped"
    /\ ~startErr
    /\ Len(c.stop) = 2

\* C2: whenever the construction of any exporter fails during Start, Start
\* returns a non-nil error.
C2_ConstructionErrorReturned ==
    (pc \in {"started", "startPanicked", "stopped"} /\ ConstructionFailed)
        => (pc # "startPanicked" /\ startErr)

\* What Start set up for a signal: its provider and its callbacks.
TraceSetup(tracerProvider, stop) ==
    [provider |-> tracerProvider, callbacks |-> SelectSeq(stop, LAMBDA cb : cb.signal = "trace")]

MetricSetup(meterProvider, stop) ==
    [provider |-> meterProvider, callbacks |-> SelectSeq(stop, LAMBDA cb : cb.signal = "metric")]

\* The outcome of a Start without failures of the Config c has, had its
\* fields in over been different.
StartWith(over) ==
    StartResult([f \in DOMAIN c |-> IF f \in DOMAIN over THEN over[f]
                                   ELSE IF f = "stop" THEN <<>> ELSE c[f]],
                InitialGlobals, {}).w

\* C3: with an empty trace endpoint Start registers no tracer provider and no
\* trace callback, with an empty metric endpoint no meter provider and no
\* metric callback; the other signal is set up exactly as it is when both
\* endpoints are set.
C3_EmptyEndpointDisablesItsSignalOnly ==
    StartedWithoutError =>
      /\ c.TraceExporterEndpoint = EmptyStr =>
           /\ globals.tracerProvider.nil
           /\ TraceSetup(globals.tracerProvider, c.stop).callbacks = <<>>
           /\ \A i \in DOMAIN log : log[i].on # "TracerProvider"
           /\ ~ConstructionFailed =>
                LET other == StartWith("TraceExporterEndpoint" :> Stdout)
                IN  MetricSetup(globals.meterProvider, c.stop)
                      = MetricSetup(other.globals.meterProvider, other.stop)
      /\ c.MetricExporterEndpoint = EmptyStr =>
           /\ globals.meterProvider.nil
           /\ MetricSetup(globals.meterProvider, c.stop).callbacks = <<>>
           /\ \A i \in DOMAIN log : log[i].on # "MeterProvider"
           /\ ~ConstructionFailed =>
                LET other == StartWith("MetricExporterEndpoint" :> Stdout)
                IN  TraceSetup(globals.tracerProvider, c.stop)
                      = TraceSetup(other.globals.tracerProvider, other.stop)

\* Start ran with the trace signal disabled and the metric signal enabled.
C3_TraceDisabledMetricEnabled ==
    /\ StartedWithoutError
    /\ c.TraceExporterEndpoint = EmptyStr
    /\ c.MetricExporterEndpoint # EmptyStr
    /\ ~globals.meterProvider.nil


\* The constructor calls of one initOtelExporter call, in order.
CtorsOf(call) == SelectSeq(log, LAMBDA e : e.fn \in Constructors /\ e.on = call)

\* The endpoint string an initOtelExporter call was given.
EndpointOf(call) ==
    IF call = "trace" THEN c.TraceExporterEndpoint ELSE c.MetricExporterEndpoint

\* Start made the call: always the one for the trace endpoint, the one for
\* the metric endpoint unless the first returned an error.
CallMade(call) ==
    \/ call = "trace"
    \/ \A i \in DOMAIN log :
         (log[i].fn \in TraceConstructors /\ log[i].on = "trace") => log[i].ok

\* The exporter a provider was given fits the endpoint string.
ExporterFits(exporter, endpoint, stdoutNew, grpcNew) ==
    IF endpoint = Stdout THEN exporter.kind = stdoutNew
    ELSE exporter.kind = grpcNew /\ exporter.endpoint = endpoint

\* C4: the endpoint string alone chooses the exporters of a call: exactly
\* "stdout" the stdout exporters, any other non-empty string the gRPC OTLP
\* exporters addressed to that string, the empty string no exporter and no
\* error.
C4_EndpointStringChoosesExporterKind ==
    pc \in {"started", "startPanicked", "stopped"} =>
      /\ \A call \in {"trace", "metric"} :
           CallMade(call) =>
             LET e == EndpointOf(call)
                 cs == CtorsOf(call)
             IN  /\ e = Stdout =>
                      /\ cs # <<>>
                      /\ \A i \in DOMAIN cs : cs[i].fn \in StdoutConstructors
                 /\ (e # Stdout /\ e # EmptyStr) =>
                      /\ cs # <<>>
                      /\ \A i \in DOMAIN cs :
                           cs[i].fn \in GRPCConstructors /\ cs[i].endpoint = e
                 /\ e = EmptyStr => cs = <<>>
      /\ ~globals.tracerProvider.nil =>
           ExporterFits(globals.tracerProvider.exporter, c.TraceExporterEndpoint,
                        "stdouttrace.New", "otlptrace.New")
      /\ ~globals.meterProvider.nil =>
           ExporterFits(globals.meterProvider.exporter, c.MetricExporterEndpoint,
                        "stdoutmetric.New", "otlpmetricgrpc.New")
      /\ (c.TraceExporterEndpoint = EmptyStr /\ c.MetricExporterEndpoint = EmptyStr) =>
           /\ pc # "startPanicked" /\ ~startErr
           /\ c.stop = <<>>

\* Start ran with "STDOUT" as the trace endpoint, which is a gRPC address,
\* and "stdout" as the metric endpoint.
C4_UpperCaseStdoutIsAnAddress ==
    /\ StartedWithoutError
    /\ c.TraceExporterEndpoint = UpperStdout
    /\ c.MetricExporterEndpoint = Stdout
    /\ ~globals.tracerProvider.nil
    /\ ~globals.meterProvider.nil

\* An SLS endpoint is paired with an insecure connection.
InsecureSLS(cfg) ==
    \/ Contains(cfg.TraceExporterEndpoint, SLSDomain) /\ cfg.TraceExporterEndpointInsecure
    \/ Contains(cfg.MetricExporterEndpoint, SLSDomain) /\ cfg.MetricExporterEndpointInsecure

\* C5: every Config NewConfig returns whose trace or metric endpoint contains
\* "log.aliyuncs.com" while the endpoint's insecure flag is true comes with a
\* non-nil error: no Config returned with a nil error pairs an SLS endpoint
\* with an insecure connection.
C5_InsecureSLSRejected ==
    Returned => (InsecureSLS(c) => err # NoError)

\* NewConfig returned a Config with an SLS endpoint, an insecure flag and all
\* four credentials in order, and the insecure error.
C5_InsecureSLSWithGoodCredentials ==
    /\ pc = "configured"
    /\ InsecureSLS(c)
    /\ c.ServiceName # EmptyStr /\ c.ServiceVersion # EmptyStr
    /\ \A v \in {c.Project, c.InstanceID, c.AccessKeyID, c.AccessKeySecret} :
         v # EmptyStr /\ ~ContainsAny(v, PlaceholderChars)
    /\ err = ErrInsecure

\* One of the endpoints contains the SLS domain.
SLSBound(cfg) ==
    \/ Contains(cfg.TraceExporterEndpoint, SLSDomain)
    \/ Contains(cfg.MetricExporterEndpoint, SLSDomain)

Credentials(cfg) == {cfg.Project, cfg.InstanceID, cfg.AccessKeyID, cfg.AccessKeySecret}

\* C6: when either endpoint contains "log.aliyuncs.com", IsValid returns nil
\* only if Project, InstanceID, AccessKeyID and AccessKeySecret are all
\* non-empty and none contains '$', '{' or '}'; when neither endpoint does,
\* the four fields play no part in the result.
C6_SLSCredentialsChecked ==
    Returned =>
      /\ (SLSBound(c) /\ err = NoError) =>
           \A v \in Credentials(c) :
             /\ v # EmptyStr
             /\ \A i \in DOMAIN v : v[i] \notin {"$", "{", "}"}
      /\ ~SLSBound(c) =>
           err = IF c.ServiceName = EmptyStr THEN ErrEmptyServiceName
                 ELSE IF c.ServiceVersion = EmptyStr THEN ErrEmptyServiceVersion
                 ELSE NoError

\* NewConfig accepted a Config with an SLS endpoint and four good credentials.
C6_SLSAccepted ==
    /\ pc = "configured"
    /\ SLSBound(c)
    /\ err = NoError

\* NewConfig accepted a Config without an SLS endpoint whose credentials are
\* missing.
C6_NoSLSCredentialsIgnored ==
    /\ pc = "configured"
    /\ ~SLSBound(c)
    /\ c.MetricExporterEndpoint = NearSLSEndpoint
    /\ EmptyStr \in Credentials(c)
    /\ err = NoError


\* The greatest element of a non-empty set of numbers.
Last(S) == CHOOSE i \in S : \A j \in S : j <= i

\* The Config fields an option sets.
OptionFields(o) ==
    CASE o.op = "WithMetricExporterEndpoint" -> {"MetricExporterEndpoint"}
      [] o.op = "WithTraceExporterEndpoint" -> {"TraceExporterEndpoint"}
      [] o.op = "WithServiceName" -> {"ServiceName"}
      [] o.op = "WithServiceNamespace" -> {"ServiceNamespace"}
      [] o.op = "WithServiceVersion" -> {"ServiceVersion"}
      [] o.op = "WithTraceExporterInsecure" -> {"TraceExporterEndpointInsecure"}
      [] o.op = "WithMetricExporterInsecure" -> {"MetricExporterEndpointInsecure"}
      [] o.op = "WithResourceAttributes" -> {"resourceAttributes"}
      [] o.op = "WithResource" -> {"Resource"}
      [] o.op = "WithErrorHandler" -> {"errorHandler"}
      [] o.op = "WithMetricReportingPeriod" -> {"MetricReportingPeriod"}
      [] o.op = "WithSLSConfig" -> {"Project", "InstanceID", "AccessKeyID", "AccessKeySecret"}
      [] o.op = "WithIDGenerator" -> IF o.generator # Nil THEN {"IDGenerator"} ELSE {}

\* The value an option sets a field it sets to.
OptionValue(o, field) ==
    CASE o.op \in {"WithMetricExporterEndpoint", "WithTraceExporterEndpoint"} -> o.url
      [] o.op = "WithServiceName" -> o.name
      [] o.op = "WithServiceNamespace" -> o.namespace
      [] o.op = "WithServiceVersion" -> o.version
      [] o.op \in {"WithTraceExporterInsecure", "WithMetricExporterInsecure"} -> o.insecure
      [] o.op = "WithResourceAttributes" -> o.attributes
      [] o.op = "WithResource" -> o.resource
      [] o.op = "WithErrorHandler" -> o.handler
      [] o.op = "WithMetricReportingPeriod" -> Sprint(o.p)
      [] o.op = "WithSLSConfig" ->
           (CASE field = "Project" -> o.project
              [] field = "InstanceID" -> o.instanceID
              [] field = "AccessKeyID" -> o.accessKeyID
              [] field = "AccessKeySecret" -> o.accessKeySecret)
      [] o.op = "WithIDGenerator" -> o.generator

\* The positions of the options that set a field.
Setters(field) == {i \in 1..Len(opts) : field \in OptionFields(opts[i])}

\* A field's value from the environment: the variable's value where the
\* variable is set, else the default of the tag, read as a bool for a bool
\* field; the zero value for a field without a tag.
FromEnvironment(field) ==
    IF field \notin EnvFields THEN ZeroConfig[field]
    ELSE LET tag == TagOf(field)
             text == IF tag.key \in DOMAIN environ THEN environ[tag.key] ELSE tag.default
         IN  IF tag.bool THEN text \in TrueSpellings ELSE text

\* The value the last option that sets the field gave it, else the value
\* from the environment.
Expected(field) ==
    IF Setters(field) # {} THEN OptionValue(opts[Last(Setters(field))], field)
    ELSE FromEnvironment(field)

\* C7, as stated: in the Config NewConfig returns every field that an option
\* or an env tag sets has the value set by the last option that sets it, else
\* the value of its environment variable, else the default of its env tag.
C7_EveryFieldLastOptionWins ==
    pc = "configured" =>
      \A f \in DOMAIN ZeroConfig :
        (Setters(f) # {} \/ f \in EnvFields) => c[f] = Expected(f)

\* The fields NewConfig computes after the options ran: mergeResource
\* replaces Resource, parseEnvKeys adds to resourceAttributes.
ComputedFields == {"Resource", "resourceAttributes"}

\* C7, amended: in the Config NewConfig returns every field other than
\* Resource and resourceAttributes has the value set by the last option that
\* sets it, else the value of its environment variable, else the default of
\* its env tag.
C7_LastOptionWinsExceptComputedFields ==
    pc = "configured" =>
      \A f \in DOMAIN ZeroConfig \ ComputedFields :
        (Setters(f) # {} \/ f \in EnvFields) => c[f] = Expected(f)

\* NewConfig ran with two different options for one field whose environment
\* variable is set as well.
C7_TwoOptionsOverEnvironment ==
    /\ pc = "configured"
    /\ \E f \in EnvFields :
         /\ Setters(f) = {1, 2}
         /\ OptionValue(opts[1], f) # OptionValue(opts[2], f)
         /\ TagOf(f).key \in DOMAIN environ
         /\ environ[TagOf(f).key] # OptionValue(opts[2], f)

\* C8: NewConfig returns "empty service name" whenever ServiceName is empty
\* after merging environment and options, whatever the other fields hold, and
\* "empty service version" whenever ServiceName is non-empty and
\* ServiceVersion is empty.
C8_ServiceNameAndVersionErrors ==
    pc \notin {"init", "noconfig"} =>
      /\ Expected("ServiceName") = EmptyStr =>
           (Returned /\ err = ErrEmptyServiceName)
      /\ (Expected("ServiceName") # EmptyStr /\ Expected("ServiceVersion") = EmptyStr) =>
           (Returned /\ err = ErrEmptyServiceVersion)

\* What holds of the Configs NewConfig returns: the two checks come first.
C8_WhenNewConfigReturns ==
    Returned =>
      /\ c.ServiceName = EmptyStr => err = ErrEmptyServiceName
      /\ (c.ServiceName # EmptyStr /\ c.ServiceVersion = EmptyStr) =>
           err = ErrEmptyServiceVersion

\* The provider a signal's callback shuts down.
ProviderOf(signal) == IF signal = "trace" THEN "TracerProvider" ELSE "MeterProvider"

\* The position of the "stop" event of the callback that log[j] belongs to.
CallbackStart(j) == Last({k \in 1..j : log[k].fn = "stop"})

\* C9: in every stop callback Shutdown runs, the signal's provider is shut
\* down before the signal's exporter stop function is called and before that
\* function shuts its exporter down.
C9_ProviderShutDownBeforeExporterStop ==
    \A j \in DOMAIN log :
      (log[j].fn = "exporterStop"
         \/ (log[j].fn = "Shutdown" /\ log[j].on \notin {"TracerProvider", "MeterProvider"})) =>
        /\ \E k \in 1..(j - 1) : log[k].fn = "stop"
        /\ LET k == CallbackStart(j)
           IN  \E i \in (k + 1)..(j - 1) :
                 log[i] = Called("Shutdown", ProviderOf(log[k].on))

\* Shutdown ran two callbacks, each with an exporter to shut down.
C9_TwoCallbacksWithExporters ==
    /\ pc = "stopped"
    /\ Len(c.stop) = 2
    /\ \A i \in 1..2 : ~c.stop[i].stop.traceExporter.nil

\* The positions of the WithMetricReportingPeriod options.
PeriodOptions == {i \in 1..Len(opts) : opts[i].op = "WithMetricReportingPeriod"}

PeriodKey == TagOf("MetricReportingPeriod").key

\* C10: the interval initMetric hands to the SDK is 30 seconds when no period
\* was configured and when the configured period is not a duration; after
\* WithMetricReportingPeriod(p) it is exactly p.
C10_MetricInterval ==
    ~globals.meterProvider.nil =>
      LET interval == globals.meterProvider.interval
      IN  /\ PeriodOptions # {} => interval = opts[Last(PeriodOptions)].p
          /\ (PeriodOptions = {} /\ PeriodKey \notin DOMAIN environ) =>
               interval = Duration(FALSE, 30, 0)
          /\ (PeriodOptions = {} /\ PeriodKey \in DOMAIN environ
                /\ environ[PeriodKey] = <<"9", "0">>) =>
               interval = Duration(FALSE, 30, 0)

\* Start ran after WithMetricReportingPeriod(1h1m1.5s).
C10_PeriodWithFraction ==
    /\ ~globals.meterProvider.nil
    /\ PeriodOptions # {}
    /\ opts[Last(PeriodOptions)].p = Duration(FALSE, 3661, 500000000)

\* Start ran with SLS_OTEL_METRIC_EXPORT_PERIOD=90, which is not a duration.
C10_PeriodWithoutUnit ==
    /\ ~globals.meterProvider.nil
    /\ PeriodOptions = {}
    /\ PeriodKey \in DOMAIN environ


\* hi over lo: the keys of both, hi's value on a common key.
Overlay(hi, lo) ==
    [k \in DOMAIN hi \cup DOMAIN lo |-> IF k \in DOMAIN hi THEN hi[k] ELSE lo[k]]

\* The attributes of the last WithResourceAttributes option.
OptionAttributes ==
    IF Setters("resourceAttributes") = {} THEN EmptyMap
    ELSE LET given == opts[Last(Setters("resourceAttributes"))].attributes.m
         IN  [k \in DOMAIN given |-> StringValue(given[k])]

\* The attributes read via SLS_OTEL_ATTRIBUTES_ENV_KEYS: the variables it
\* names, separated by '|', that have a value.
EnvKeyAttributes ==
    LET names == Split(Expected("AttributesEnvKeys"), "|")
        keys == {TrimSpace(names[i]) : i \in DOMAIN names}
    IN  [k \in {k \in keys : k \in DOMAIN environ /\ environ[k] # EmptyStr} |->
           StringValue(environ[k])]

\* The attributes of the resource given by the last WithResource option.
GivenResourceAttributes ==
    IF Setters("Resource") = {} THEN EmptyMap
    ELSE opts[Last(Setters("Resource"))].resource.attrs

\* The default attributes.
DefaultAttributes ==
    (ServiceNameKey :> StringValue(Expected("ServiceName")))
    @@ (HostNameKey :> StringValue(Hostname))
    @@ (ServiceNamespaceKey :> StringValue(Expected("ServiceNamespace")))
    @@ (ServiceVersionKey :> StringValue(Expected("ServiceVersion")))
    @@ (ProcessPIDKey :> IntValue(Getpid))
    @@ (ProcessCommandKey :> StringValue(Args0))

\* The attributes by precedence: the resource attributes (a variable named by
\* SLS_OTEL_ATTRIBUTES_ENV_KEYS over an option's attribute of the same key),
\* the SDK's environment resource, the given resource, the defaults.
ExpectedAttributes ==
    Overlay(Overlay(EnvKeyAttributes, OptionAttributes),
            Overlay(Environment(environ).attrs,
                    Overlay(GivenResourceAttributes, DefaultAttributes)))

\* C11: NewConfig builds a Resource in which every attribute key has the
\* value of the highest place that defines it: the resource attributes
\* (WithResourceAttributes and SLS_OTEL_ATTRIBUTES_ENV_KEYS), then the SDK's
\* environment resource, then the resource of WithResource, then the
\* defaults; keys defined in one place only are all kept.
C11_ResourcePrecedence ==
    pc \notin {"init", "noconfig"} =>
      /\ Returned
      /\ c.Resource.attrs = ExpectedAttributes

\* NewConfig was given a resource whose schema URL is not the package's.
SchemaConflict ==
    /\ Setters("Resource") # {}
    /\ opts[Last(Setters("Resource"))].resource.schemaURL # SchemaURL

\* What holds when NewConfig returns and no schema URLs conflict.
C11_WhenResourcesMerge ==
    (Returned /\ ~SchemaConflict) => c.Resource.attrs = ExpectedAttributes

\* NewConfig returned after WithResource gave a resource of another schema
\* URL: the Resource is empty, the defaults included.
C11_SchemaConflictEmptiesResource ==
    /\ pc = "configured"
    /\ SchemaConflict
    /\ c.Resource = EmptyResource
    /\ err = NoError


\* The headers this package defines.
SLSHeaders ==
    {slsProjectHeader, slsInstanceIDHeader, slsAccessKeyIDHeader,
     slsAccessKeySecretHeader, slsSecurityTokenHeader}

\* The header sets of the gRPC exporters: of every gRPC constructor call
\* Start made, and of every gRPC exporter a provider or a callback holds.
GRPCHeaderSets ==
    {log[i].headers : i \in {i \in DOMAIN log : log[i].fn \in GRPCConstructors}}
    \cup {x.headers : x \in {x \in {globals.tracerProvider.exporter,
                                    globals.meterProvider.exporter}
                                   \cup {c.stop[i].stop.traceExporter : i \in DOMAIN c.stop} :
                               x.kind \in GRPCConstructors}}

\* C12: every gRPC exporter carries the four headers x-sls-otel-project,
\* x-sls-otel-instance-id, x-sls-otel-ak-id and x-sls-otel-ak-secret with the
\* configured values when Project and InstanceID are both non-empty and no
\* header of this package otherwise; none carries x-sls-otel-token.
C12_SLSHeaders ==
    \A headers \in GRPCHeaderSets :
      /\ (c.Project # EmptyStr /\ c.InstanceID # EmptyStr) =>
           headers = ("x-sls-otel-project" :> c.Project)
                     @@ ("x-sls-otel-instance-id" :> c.InstanceID)
                     @@ ("x-sls-otel-ak-id" :> c.AccessKeyID)
                     @@ ("x-sls-otel-ak-secret" :> c.AccessKeySecret)
      /\ (c.Project = EmptyStr \/ c.InstanceID = EmptyStr) =>
           DOMAIN headers \cap SLSHeaders = {}
      /\ "x-sls-otel-token" \notin DOMAIN headers

\* Start built gRPC exporters with Project and InstanceID set.
C12_HeadersSent ==
    /\ StartReturned
    /\ c.Project # EmptyStr /\ c.InstanceID # EmptyStr
    /\ \E headers \in GRPCHeaderSets : DOMAIN headers # {}

\* Start built gRPC exporters with Project set and InstanceID empty.
C12_ProjectWithoutInstanceID ==
    /\ StartReturned
    /\ c.Project # EmptyStr /\ c.InstanceID = EmptyStr
    /\ GRPCHeaderSets # {}


\* C13: nothing orders the steps of a concurrent Start and Shutdown on one
\* Config: Shutdown's range statement can run in every state of Start, and
\* Shutdown invokes exactly the callbacks of the slice that statement read,
\* in order, so a callback Start stores in c.stop afterwards is not invoked.
C13_ShutdownRunsWhatItsRangeRead ==
    /\ (Running /\ run.shutdown = "idle") => ENABLED Shutdown_range
    /\ run.shutdown = "ranging" =>
         StopsRun = Signals(SubSeq(run.ranged, 1, run.i - 1))
    /\ run.shutdown = "returned" => StopsRun = Signals(run.ranged)

\* Start returned nil and Shutdown returned, and Shutdown has not invoked a
\* callback that Start registered.
C13_ShutdownMissedCallback ==
    /\ run.start = "returned"
    /\ ~startErr
    /\ run.shutdown = "returned"
    /\ \E i \in DOMAIN c.stop : c.stop[i].signal \notin {StopsRun[j] : j \in DOMAIN StopsRun}

\* Shutdown read c.stop between Start's two appends: it invoked the trace
\* callback and missed the metric callback.
C13_ShutdownBetweenAppends ==
    /\ run.start = "returned"
    /\ run.shutdown = "returned"
    /\ Signals(c.stop) = <<"trace", "metric">>
    /\ StopsRun = <<"trace">>

\* Shutdown's read of c.stop raced with Start's store.
C13_TornRead == run.shutdown = "crashed"


\* The handler the options configured: that of the last WithErrorHandler.
ConfiguredHandler ==
    IF Setters("errorHandler") = {} THEN Nil
    ELSE opts[Last(Setters("errorHandler"))].handler

\* The positions in the log where the global error handler was set.
HandlerInstalls == {i \in DOMAIN log : log[i].fn = "otel.SetErrorHandler"}

\* C14: Start installs the configured error handler as the global one if and
\* only if it is not nil, as the first thing it does, before any exporter or
\* provider is created; with no handler configured the global error handler
\* stays what it was.
C14_ErrorHandlerInstalledFirst ==
    pc \in {"started", "startPanicked", "stopped"} =>
      /\ ConfiguredHandler # Nil =>
           /\ globals.errorHandler = ConfiguredHandler
           /\ HandlerInstalls = {1}
           /\ log[1] = Called("otel.SetErrorHandler", ConfiguredHandler)
      /\ ConfiguredHandler = Nil =>
           /\ globals.errorHandler = InitialGlobals.errorHandler
           /\ HandlerInstalls = {}

\* Start installed a handler and then created exporters and a provider.
C14_HandlerThenExporters ==
    /\ pc = "started"
    /\ ConfiguredHandler # Nil
    /\ ~globals.tracerProvider.nil
    /\ \E i \in DOMAIN log : i > 1 /\ log[i].fn \in Constructors

\* Start ran after WithErrorHandler(nil) had taken a handler back.
C14_HandlerTakenBack ==
    /\ pc = "started"
    /\ Len(opts) = 2
    /\ opts[1] = [op |-> "WithErrorHandler", handler |-> "handler"]
    /\ opts[2] = [op |-> "WithErrorHandler", handler |-> Nil]
    /\ globals.errorHandler = "default"

====
